---- MODULE Spec2Model ----
(***************************************************************************)
(* Multi-modal emotion fusion (src/src/lib/actions.ts): the label          *)
(* normalizer, the text-embedded emotion extractor and the two fusion      *)
(* strategies.  Strings are TLA+ strings; numbers are exact rationals:     *)
(* weights are counted in tenths (the floating-point sums 0.3+0.2,         *)
(* 0.5+0.3, 0.5+0.3+0.2, 0.3+0.3+0.2 are exact in IEEE-754 doubles), a     *)
(* facial confidence in hundredths, a returned confidence is the pair      *)
(* <<numerator, denominator>>.                                             *)
(***************************************************************************)
EXTENDS Integers, Sequences, FiniteSets, TLC

VARIABLES
  pc,            \* the function the caller entered last, "idle" before any call
  input,         \* fuseEmotions: the MultiModalEmotionInput argument
  strategy,      \* fuseEmotions: the strategy argument (<<>> when omitted)
  result,        \* fuseEmotions: the returned FusedEmotionResult
  emotionVotes,  \* the fusion's local accumulator when it returned
  emotion,       \* normalizeEmotion: the argument
  label,         \* normalizeEmotion: the returned string
  rawText,       \* extractEmotionFromText: the argument
  extracted,     \* extractEmotionFromText: <<the returned label>>, <<>> for null
  formatted,     \* formatEmotionResult: the returned string
  aggPc,         \* detectFacialExpressionMultiFrame: where the call stands
  numFrames,     \* its argument numFrames
  frameIndex,    \* its loop counter i
  detections,    \* its array of collected samples
  frames,        \* what each classifier invocation resolved to, in order
  calls,         \* classifier invocations started
  pauses,        \* setTimeout pauses started
  inFlight,      \* classifier invocations started and not yet resolved
  returned,      \* its return value: <<>> for null, <<record>> otherwise
  flowPc,        \* analyzeUserEmotionFlow: where the call stands
  flowInput,     \* its argument
  flowResult,    \* its local result, returned at the end
  voiceOutcome,  \* what the voice prompt did: <<>> while not called
  textOutcome,   \* what the text prompt did: <<>> while not called
  isLoading,           \* ChatInterface state isLoading
  faceApiLoaded,       \* ChatInterface state faceApiLoaded
  conversationHistory, \* ChatInterface state conversationHistory
  messages,            \* ChatInterface state messages, each with its turn
  isRecording,         \* ChatInterface state isRecording
  recorderState,       \* mediaRecorderRef.current.state
  transcript,          \* transcriptRef.current
  pressedWith,         \* faceApiLoaded when the record button was pressed
  stopQueued,          \* stop events dispatched, onstop not yet run
  converting,          \* onstop handlers awaiting blobToBase64
  turns,               \* the calls of processInteraction, in order
  modelsLoaded,        \* facial-emotion-detector: the module's flag
  loadCalls,           \* the calls of loadFaceApiModels, in order
  loadsStarted,        \* underlying loads (Promise.all of loadFromUri) begun
  loadsFailed          \* underlying loads that rejected

\* the state of a call into the fusion library
callVars ==
  <<pc, input, strategy, result, emotionVotes, emotion, label, rawText,
    extracted, formatted>>

\* the state of a run of the multi-frame facial detector
aggVars ==
  <<aggPc, numFrames, frameIndex, detections, frames, calls, pauses, inFlight, returned>>

\* the state of a run of the emotion analysis flow
flowVars == <<flowPc, flowInput, flowResult, voiceOutcome, textOutcome>>

\* the state of the chat interface
chatVars ==
  <<isLoading, faceApiLoaded, conversationHistory, messages, isRecording,
    recorderState, transcript, pressedWith, stopQueued, converting, turns>>

\* the state of the model loader
loaderVars == <<modelsLoaded, loadCalls, loadsStarted, loadsFailed>>

vars == <<callVars, aggVars, flowVars, chatVars, loaderVars>>

(***************************************************************************)
(* Bounds.                                                                 *)
(***************************************************************************)
\* largest number of blanks put around a label handed to normalizeEmotion
MaxPad == 1

\* largest numFrames a run of the multi-frame detector is started with
\* (the default value of the parameter is 5)
MaxFrames == 5

\* largest number of turns (typed messages and recordings) of a session
MaxTurns == 2

\* the turns of a session whose settling is followed to the end
MaxFairTurns == 1

\* largest number of calls made to the model loader and the detector
MaxLoadCalls == 3

(***************************************************************************)
(* JavaScript values: T | null is <<>> (null/undefined) or <<v>>.          *)
(***************************************************************************)
None == <<>>

Some(v) == <<v>>

\* if (x) for x : string | null | undefined -- "" is falsy too
TruthyStr(x) == x # None /\ x[1] # ""

\* a || b for a : string | null, b : string
OrElse(a, b) == IF TruthyStr(a) THEN a[1] ELSE b

(***************************************************************************)
(* String primitives.                                                      *)
(***************************************************************************)
UpperChars == "ABCDEFGHIJKLMNOPQRSTUVWXYZ"

LowerChars == "abcdefghijklmnopqrstuvwxyz"

CharAt(s, i) == SubSeq(s, i, i)

\* the lower-case letter of each upper-case letter, and the converse
LowerOf ==
  [c \in {CharAt(UpperChars, i) : i \in 1..26} |->
     CharAt(LowerChars, CHOOSE i \in 1..26 : CharAt(UpperChars, i) = c)]

UpperOf ==
  [c \in {CharAt(LowerChars, i) : i \in 1..26} |->
     CharAt(UpperChars, CHOOSE i \in 1..26 : CharAt(LowerChars, i) = c)]

toLowerCaseChar(c) == IF c \in DOMAIN LowerOf THEN LowerOf[c] ELSE c

toUpperCaseChar(c) == IF c \in DOMAIN UpperOf THEN UpperOf[c] ELSE c

RECURSIVE toLowerCase(_)
toLowerCase(s) ==
  IF s = "" THEN "" ELSE toLowerCaseChar(CharAt(s, 1)) \o toLowerCase(Tail(s))

RECURSIVE toUpperCase(_)
toUpperCase(s) ==
  IF s = "" THEN "" ELSE toUpperCaseChar(CharAt(s, 1)) \o toUpperCase(Tail(s))

IsWhitespace(c) == c \in {" ", "\t", "\n"}

\* only the leading whitespace is removed
trim_LeadingOnly(s) ==
  LET keep == {i \in 1..Len(s) : ~IsWhitespace(CharAt(s, i))}
  IN  IF keep = {} THEN ""
      ELSE SubSeq(s, CHOOSE i \in keep : \A j \in keep : i <= j, Len(s))

\* String.prototype.trim
trim(s) ==
  LET keep == {i \in 1..Len(s) : ~IsWhitespace(CharAt(s, i))}
  IN  IF keep = {} THEN ""
      ELSE SubSeq(s, CHOOSE i \in keep : \A j \in keep : i <= j,
                     CHOOSE i \in keep : \A j \in keep : i >= j)

\* String.prototype.includes
includes(s, sub) ==
  \E i \in 1..(Len(s) - Len(sub) + 1) : SubSeq(s, i, i + Len(sub) - 1) = sub

\* the fallback forgets to capitalize
capitalize_Unchanged(s) == s

\* s.charAt(0).toUpperCase() + s.slice(1)
capitalize(s) ==
  IF s = "" THEN "" ELSE toUpperCaseChar(CharAt(s, 1)) \o Tail(s)

(***************************************************************************)
(* The taxonomy and the label normalizer.                                  *)
(***************************************************************************)
STANDARD_EMOTIONS ==
  << "Happy", "Sad", "Angry", "Fearful", "Surprised", "Disgusted",
     "Neutral", "Anxious", "Excited", "Calm", "Frustrated", "Confused" >>

Taxonomy == {STANDARD_EMOTIONS[i] : i \in 1..Len(STANDARD_EMOTIONS)}

\* "calm" taken out of the Neutral rule and given a rule of its own
NormalizeRules_CalmRule ==
  << << {"happ", "joy"},      "Happy" >>,
     << {"sad", "depress"},   "Sad" >>,
     << {"ang", "mad"},       "Angry" >>,
     << {"fear", "scared"},   "Fearful" >>,
     << {"surpris", "shock"}, "Surprised" >>,
     << {"disgust"},          "Disgusted" >>,
     << {"neutr"},            "Neutral" >>,
     << {"calm"},             "Calm" >>,
     << {"anxi", "worr"},     "Anxious" >>,
     << {"excit"},            "Excited" >>,
     << {"frustrat"},         "Frustrated" >>,
     << {"confus"},           "Confused" >> >>

\* the ordered if-chain of normalizeEmotion: <<keywords, target>>
NormalizeRules ==
  << << {"happ", "joy"},      "Happy" >>,
     << {"sad", "depress"},   "Sad" >>,
     << {"ang", "mad"},       "Angry" >>,
     << {"fear", "scared"},   "Fearful" >>,
     << {"surpris", "shock"}, "Surprised" >>,
     << {"disgust"},          "Disgusted" >>,
     << {"neutr", "calm"},    "Neutral" >>,
     << {"anxi", "worr"},     "Anxious" >>,
     << {"excit"},            "Excited" >>,
     << {"frustrat"},         "Frustrated" >>,
     << {"confus"},           "Confused" >> >>

\* index of the first rule of an ordered table one of whose keywords occurs
\* in lower, 0 when none does
FirstRule(rules, lower) ==
  LET hits == {i \in 1..Len(rules) : \E k \in rules[i][1] : includes(lower, k)}
  IN  IF hits = {} THEN 0 ELSE CHOOSE i \in hits : \A j \in hits : i <= j

\* the exact match compares the canonical spelling, not its lower case
FindStandard_CaseSensitive(lower) ==
  LET hits == {i \in 1..Len(STANDARD_EMOTIONS) : STANDARD_EMOTIONS[i] = lower}
  IN  IF hits = {} THEN 0 ELSE CHOOSE i \in hits : \A j \in hits : i <= j

\* STANDARD_EMOTIONS.find(std => std.toLowerCase() === lower): index or 0
FindStandard(lower) ==
  LET hits == {i \in 1..Len(STANDARD_EMOTIONS) :
                 toLowerCase(STANDARD_EMOTIONS[i]) = lower}
  IN  IF hits = {} THEN 0 ELSE CHOOSE i \in hits : \A j \in hits : i <= j

\* the keyword chain is tried before the exact match
normalizeEmotion_KeywordsFirst(e) ==
  LET norm         == trim(e)
      lowerEmotion == toLowerCase(norm)
      match        == FindStandard(lowerEmotion)
      rule         == FirstRule(NormalizeRules, lowerEmotion)
  IN  IF rule # 0 THEN NormalizeRules[rule][2]
      ELSE IF match # 0 THEN STANDARD_EMOTIONS[match]
      ELSE capitalize(norm)

normalizeEmotion(e) ==
  LET norm         == trim(e)
      lowerEmotion == toLowerCase(norm)
      match        == FindStandard(lowerEmotion)
      rule         == FirstRule(NormalizeRules, lowerEmotion)
  IN  IF match # 0 THEN STANDARD_EMOTIONS[match]
      ELSE IF rule # 0 THEN NormalizeRules[rule][2]
      ELSE capitalize(norm)

(***************************************************************************)
(* The text-embedded emotion extractor.                                    *)
(***************************************************************************)
\* the ordered if-chain of extractEmotionFromText: <<keywords, target>>
ExtractRules ==
  << << {"happy", "joy"},        "Happy" >>,
     << {"sad", "unhappy"},      "Sad" >>,
     << {"angry", "upset"},      "Angry" >>,
     << {"afraid", "scared"},    "Fearful" >>,
     << {"surprised", "amazed"}, "Surprised" >>,
     << {"disgusted"},           "Disgusted" >>,
     << {"neutral", "calm"},     "Neutral" >>,
     << {"anxious", "worried"},  "Anxious" >>,
     << {"excited"},             "Excited" >>,
     << {"frustrated"},          "Frustrated" >>,
     << {"confused"},            "Confused" >> >>

\* the member named first in the text wins, not the first of the taxonomy
FirstMention_TextOrder(lowerText) ==
  LET name(i) == toLowerCase(STANDARD_EMOTIONS[i])
      hits    == {i \in 1..Len(STANDARD_EMOTIONS) : includes(lowerText, name(i))}
      at(i)   == CHOOSE p \in 1..Len(lowerText) :
                   /\ SubSeq(lowerText, p, p + Len(name(i)) - 1) = name(i)
                   /\ \A q \in 1..(p - 1) :
                        SubSeq(lowerText, q, q + Len(name(i)) - 1) # name(i)
  IN  IF hits = {} THEN 0 ELSE CHOOSE i \in hits : \A j \in hits : at(i) <= at(j)

\* for (const emotion of STANDARD_EMOTIONS) if (lowerText.includes(...)):
\* index of the first taxonomy member named in lowerText, 0 when none is
FirstMention(lowerText) ==
  LET hits == {i \in 1..Len(STANDARD_EMOTIONS) :
                 includes(lowerText, toLowerCase(STANDARD_EMOTIONS[i]))}
  IN  IF hits = {} THEN 0 ELSE CHOOSE i \in hits : \A j \in hits : i <= j

\* the keyword table is consulted before the names of the taxonomy
extractEmotionFromText_KeywordsFirst(text) ==
  IF text = "" THEN None
  ELSE LET lowerText == toLowerCase(text)
           mention   == FirstMention(lowerText)
           rule      == FirstRule(ExtractRules, lowerText)
       IN  IF rule # 0 THEN Some(ExtractRules[rule][2])
           ELSE IF mention # 0 THEN Some(STANDARD_EMOTIONS[mention])
           ELSE None

extractEmotionFromText(text) ==
  IF text = "" THEN None
  ELSE LET lowerText == toLowerCase(text)
           mention   == FirstMention(lowerText)
           rule      == FirstRule(ExtractRules, lowerText)
       IN  IF mention # 0 THEN Some(STANDARD_EMOTIONS[mention])
           ELSE IF rule # 0 THEN Some(ExtractRules[rule][2])
           ELSE None

(***************************************************************************)
(* A plain JavaScript object used as a map (emotionVotes): the sequence of *)
(* its own <<key, value>> properties in creation order.  Of the names it   *)
(* inherits from Object.prototype only __proto__ is modelled; the others   *)
(* begin with a lower-case letter, which no normalized label does, or are  *)
(* the four __defineGetter__-style methods, which no input here names.     *)
(***************************************************************************)
EmptyObject == <<>>

HasOwn(obj, k) == \E i \in 1..Len(obj) : obj[i][1] = k

OwnValue(obj, k) == obj[CHOOSE i \in 1..Len(obj) : obj[i][1] = k][2]

\* obj[k] = (obj[k] || 0) + w
\*   k = "__proto__": the getter yields Object.prototype, which is truthy, the
\*   sum is the string "[object Object]" + w, and the setter ignores a value
\*   that is neither an object nor null: no own property is created
AddVote(obj, k, w) ==
  IF k = "__proto__" THEN obj
  ELSE IF HasOwn(obj, k)
       THEN [i \in 1..Len(obj) |->
               IF obj[i][1] = k THEN <<k, obj[i][2] + w>> ELSE obj[i]]
       ELSE Append(obj, <<k, w>>)

Digits == "0123456789"

IsDigit(c) == \E i \in 1..10 : CharAt(Digits, i) = c

DigitValue(c) == (CHOOSE i \in 1..10 : CharAt(Digits, i) = c) - 1

RECURSIVE ToNumber(_)
ToNumber(k) ==
  IF k = "" THEN 0
  ELSE 10 * ToNumber(SubSeq(k, 1, Len(k) - 1)) + DigitValue(CharAt(k, Len(k)))

\* an array index: the canonical decimal form of an integer (up to nine
\* digits here; the language allows up to 2^32 - 2)
IsArrayIndex(k) ==
  /\ k # ""
  /\ Len(k) <= 9
  /\ \A i \in 1..Len(k) : IsDigit(CharAt(k, i))
  /\ (Len(k) = 1 \/ CharAt(k, 1) # "0")

\* the entries of obj whose key is in keep, in order
RECURSIVE SelectEntries(_, _)
SelectEntries(obj, keep) ==
  IF obj = <<>> THEN <<>>
  ELSE IF Head(obj)[1] \in keep
       THEN <<Head(obj)>> \o SelectEntries(Tail(obj), keep)
       ELSE SelectEntries(Tail(obj), keep)

\* entries in ascending order of the numeric value of their keys
RECURSIVE SortByIndex(_)
SortByIndex(es) ==
  IF es = <<>> THEN <<>>
  ELSE LET m == CHOOSE i \in 1..Len(es) :
                  \A j \in 1..Len(es) : ToNumber(es[i][1]) <= ToNumber(es[j][1])
       IN  <<es[m]>> \o
           SortByIndex(SubSeq(es, 1, m - 1) \o SubSeq(es, m + 1, Len(es)))

\* Object.entries(obj): array-index keys first, in ascending numeric order,
\* then the other string keys in creation order
ObjectEntries(obj) ==
  LET keys    == {obj[i][1] : i \in 1..Len(obj)}
      indices == {k \in keys : IsArrayIndex(k)}
  IN  SortByIndex(SelectEntries(obj, indices))
        \o SelectEntries(obj, keys \ indices)

\* Array.prototype.sort((a, b) => b[1] - a[1]): stable, descending by value
RECURSIVE SortDescending(_)
SortDescending(es) ==
  IF es = <<>> THEN <<>>
  ELSE LET init == SortDescending(SubSeq(es, 1, Len(es) - 1))
           last == es[Len(es)]
           n    == Cardinality({i \in 1..Len(init) : init[i][2] >= last[2]})
       IN  SubSeq(init, 1, n) \o <<last>> \o SubSeq(init, n + 1, Len(init))

\* Object.values(obj).reduce((a, b) => a + b, 0)
RECURSIVE SumValues(_)
SumValues(es) == IF es = <<>> THEN 0 ELSE Head(es)[2] + SumValues(Tail(es))

Min(a, b) == IF a <= b THEN a ELSE b

(***************************************************************************)
(* The fusion strategies.  A weight is a number of tenths, a facial        *)
(* confidence a number of hundredths.                                      *)
(***************************************************************************)
HighConfidence == 60

HighFacialWeight == 5

LowFacialWeight == 3

VoiceWeight == 3

TextWeight == 2

\* the facial weight grows with the confidence
facialWeight_Scaled(confidence) ==
  IF confidence > HighConfidence THEN confidence \div 10 ELSE LowFacialWeight

\* input.facialEmotion.confidence > 0.6 ? 0.5 : 0.3
facialWeight(confidence) ==
  IF confidence > HighConfidence THEN HighFacialWeight ELSE LowFacialWeight

\* the raw string is normalized without looking for an embedded mention
ChannelEmotion_NoExtract(raw) == normalizeEmotion(raw)

\* normalizeEmotion(extractEmotionFromText(raw) || raw)
ChannelEmotion(raw) == normalizeEmotion(OrElse(extractEmotionFromText(raw), raw))

\* the label is not recorded
SetKey_Lost(obj, k, v) == obj

\* breakdown.k = v on the breakdown object, a function on its present keys
SetKey(obj, k, v) ==
  [x \in (DOMAIN obj) \cup {k} |-> IF x = k THEN v ELSE obj[x]]

EmptyBreakdown == [x \in {} |-> ""]

\* the three if-blocks of a strategy: the accumulator and the breakdown
\* they leave, the channels adding the weights wf, wv and wt
CastVotes(in, wf, wv, wt) ==
  LET f  == in.facialEmotion
      fe == normalizeEmotion(f[1].emotion)
      v1 == IF f # None THEN AddVote(EmptyObject, fe, wf) ELSE EmptyObject
      b1 == IF f # None THEN SetKey(EmptyBreakdown, "facial", fe)
                        ELSE EmptyBreakdown
      ve == ChannelEmotion(in.voiceEmotion[1])
      v2 == IF TruthyStr(in.voiceEmotion) THEN AddVote(v1, ve, wv) ELSE v1
      b2 == IF TruthyStr(in.voiceEmotion) THEN SetKey(b1, "voice", ve) ELSE b1
      te == ChannelEmotion(in.textEmotion[1])
      v3 == IF TruthyStr(in.textEmotion) THEN AddVote(v2, te, wt) ELSE v2
      b3 == IF TruthyStr(in.textEmotion) THEN SetKey(b2, "text", te) ELSE b2
  IN  [emotionVotes |-> v3, breakdown |-> b3]

WeightedVotes(in) ==
  CastVotes(in,
            IF in.facialEmotion # None
            THEN facialWeight(in.facialEmotion[1].confidence) ELSE 0,
            VoiceWeight, TextWeight)

MajorityVotes(in) == CastVotes(in, 1, 1, 1)

\* Object.entries(emotionVotes).sort((a, b) => b[1] - a[1])
sortedEmotions(votes) == SortDescending(ObjectEntries(votes))

\* without the empty-accumulator return the destructuring of
\* sortedEmotions[0] throws
weightedVotingFusion_NoGuard(in) ==
  LET cast   == WeightedVotes(in)
      sorted == sortedEmotions(cast.emotionVotes)
  IN  IF Len(sorted) = 0
      THEN [threw |-> "TypeError"]
      ELSE [finalEmotion |-> sorted[1][1],
            confidence   |-> <<Min(sorted[1][2], 10), 10>>,
            breakdown    |-> cast.breakdown,
            fusionMethod |-> "weighted-voting"]

weightedVotingFusion(in) ==
  LET cast   == WeightedVotes(in)
      sorted == sortedEmotions(cast.emotionVotes)
  IN  IF Len(sorted) = 0
      THEN [finalEmotion |-> "Neutral", confidence |-> <<5, 10>>,
            breakdown |-> cast.breakdown, fusionMethod |-> "weighted-voting"]
      ELSE [finalEmotion |-> sorted[1][1],
            confidence   |-> <<Min(sorted[1][2], 10), 10>>,
            breakdown    |-> cast.breakdown,
            fusionMethod |-> "weighted-voting"]

\* the fallback reports no confidence at all
majorityVotingFusion_ZeroFallback(in) ==
  LET cast   == MajorityVotes(in)
      sorted == sortedEmotions(cast.emotionVotes)
  IN  IF Len(sorted) = 0
      THEN [finalEmotion |-> "Neutral", confidence |-> <<0, 10>>,
            breakdown |-> cast.breakdown, fusionMethod |-> "majority-voting"]
      ELSE [finalEmotion |-> sorted[1][1],
            confidence   |-> <<sorted[1][2], SumValues(cast.emotionVotes)>>,
            breakdown    |-> cast.breakdown,
            fusionMethod |-> "majority-voting"]

majorityVotingFusion(in) ==
  LET cast   == MajorityVotes(in)
      sorted == sortedEmotions(cast.emotionVotes)
  IN  IF Len(sorted) = 0
      THEN [finalEmotion |-> "Neutral", confidence |-> <<5, 10>>,
            breakdown |-> cast.breakdown, fusionMethod |-> "majority-voting"]
      ELSE [finalEmotion |-> sorted[1][1],
            confidence   |-> <<sorted[1][2], SumValues(cast.emotionVotes)>>,
            breakdown    |-> cast.breakdown,
            fusionMethod |-> "majority-voting"]

\* strategy: 'weighted' | 'majority' = 'weighted'
StrategyOrDefault_MajorityDefault(strat) ==
  IF strat = None THEN "majority" ELSE strat[1]

StrategyOrDefault(strat) == IF strat = None THEN "weighted" ELSE strat[1]

fuseEmotions(in, strat) ==
  IF StrategyOrDefault(strat) = "majority"
  THEN majorityVotingFusion(in)
  ELSE weightedVotingFusion(in)

\* the accumulator of the strategy fuseEmotions runs
fusionVotes(in, strat) ==
  IF StrategyOrDefault(strat) = "majority"
  THEN MajorityVotes(in).emotionVotes
  ELSE WeightedVotes(in).emotionVotes

(***************************************************************************)
(* The inputs the calls are made with.                                     *)
(***************************************************************************)
\* what a voice or text classifier may answer: a bare label, a sentence
\* naming one, a sentence with only a keyword, and out-of-vocabulary text
RawStrings ==
  { "Happy", "Excited", "I feel neutral today", "sad and tired", "calm down",
    "I am upset", "bored", "42", "__proto__", " " }

ChannelStrings == {None, Some("")} \cup {Some(s) : s \in RawStrings}

\* a face label as mapped by the caller, and one the map leaves alone
FacialLabels == {"Happy", "Sad", "upset"}

FacialConfidences == {60, 61, 85, 90}

FacialScores ==
  {None} \cup {Some([emotion |-> e, confidence |-> c]) :
                 e \in FacialLabels, c \in FacialConfidences}

Inputs ==
  [facialEmotion : FacialScores, voiceEmotion : ChannelStrings,
   textEmotion : ChannelStrings]

\* omitted, the two documented values, and a value outside the type
Strategies == {None, Some("weighted"), Some("majority"), Some("average")}

RECURSIVE Blanks(_)
Blanks(n) == IF n = 0 THEN "" ELSE " " \o Blanks(n - 1)

\* every taxonomy member as written, in lower case and in upper case
TaxonomySpellings ==
  UNION {{m, toLowerCase(m), toUpperCase(m)} : m \in Taxonomy}

\* one string for each keyword of normalizeEmotion, and strings in which
\* keywords of two rules meet
KeywordStrings ==
  { "happiness", "joyful", "sadness", "depressed", "tangled", "mad",
    "fearsome", "scared", "surprising", "shocked", "disgusting",
    "neutrality", "calmly", "anxiety", "worrying", "exciting",
    "frustrating", "confusing",
    "worried but calm", "shocked and scared", "so mad and depressed",
    "excited yet confused" }

Labels ==
  {Blanks(a) \o s \o Blanks(b) :
     s \in TaxonomySpellings \cup RawStrings \cup KeywordStrings,
     a \in 0..MaxPad, b \in 0..MaxPad}

\* one text for each keyword of extractEmotionFromText, texts naming two
\* taxonomy members, texts with a keyword only, and texts with neither
ExtractStrings ==
  { "", "Sad but happy", "calm and confused", "UNHAPPY", "full of joy",
    "upset", "afraid", "scared", "amazed", "worried", "worried and amazed",
    "upset, full of joy", "tired", "depressed", "CALM" }

Texts == RawStrings \cup KeywordStrings \cup ExtractStrings

(***************************************************************************)
(* The calls: one behaviour is one call made by an idle caller.            *)
(***************************************************************************)
\* no call made yet
Idle ==
  /\ pc = "idle"
  /\ input = None
  /\ strategy = None
  /\ result = None
  /\ emotionVotes = None
  /\ emotion = None
  /\ label = None
  /\ rawText = None
  /\ extracted = None
  /\ formatted = None

\* no run of the multi-frame detector started yet
AggIdle ==
  /\ aggPc = "idle"
  /\ numFrames = 0
  /\ frameIndex = 0
  /\ detections = <<>>
  /\ frames = <<>>
  /\ calls = 0
  /\ pauses = 0
  /\ inFlight = 0
  /\ returned = None

\* the flow not called yet
FlowIdle ==
  /\ flowPc = "idle"
  /\ flowInput = None
  /\ flowResult = None
  /\ voiceOutcome = None
  /\ textOutcome = None

\* the greeting the message list starts with (turn 0)
Greeting ==
  [role |-> "ai", turn |-> 0,
   content |-> "Hello! I'm EmotiMate. Press and hold the microphone button to start talking, or type a message below."]

\* the chat interface mounted, the media set up, nothing said yet
ChatIdle ==
  /\ isLoading = FALSE
  /\ faceApiLoaded = FALSE
  /\ conversationHistory = ""
  /\ messages = <<Greeting>>
  /\ isRecording = FALSE
  /\ recorderState = "inactive"
  /\ transcript = ""
  /\ pressedWith = [loaded |-> FALSE]
  /\ stopQueued = <<>>
  /\ converting = <<>>
  /\ turns = <<>>

\* the detector module just evaluated
LoaderIdle ==
  /\ modelsLoaded = FALSE
  /\ loadCalls = <<>>
  /\ loadsStarted = 0
  /\ loadsFailed = 0

Init == Idle /\ AggIdle /\ FlowIdle /\ ChatIdle /\ LoaderIdle

CallFuseEmotions(in, strat) ==
  /\ pc = "idle"
  /\ pc' = "fuseEmotions"
  /\ input' = in
  /\ strategy' = strat
  /\ result' = fuseEmotions(in, strat)
  /\ emotionVotes' = fusionVotes(in, strat)
  /\ emotion' = None
  /\ label' = None
  /\ UNCHANGED <<rawText, extracted, formatted>>
  /\ UNCHANGED aggVars
  /\ UNCHANGED flowVars
  /\ UNCHANGED chatVars
  /\ UNCHANGED loaderVars

CallNormalizeEmotion(e) ==
  /\ pc = "idle"
  /\ pc' = "normalizeEmotion"
  /\ emotion' = Some(e)
  /\ label' = Some(normalizeEmotion(e))
  /\ input' = None
  /\ strategy' = None
  /\ result' = None
  /\ emotionVotes' = None
  /\ UNCHANGED <<rawText, extracted, formatted>>
  /\ UNCHANGED aggVars
  /\ UNCHANGED flowVars
  /\ UNCHANGED chatVars
  /\ UNCHANGED loaderVars

CallExtractEmotionFromText(t) ==
  /\ pc = "idle"
  /\ pc' = "extractEmotionFromText"
  /\ rawText' = Some(t)
  /\ extracted' = extractEmotionFromText(t)
  /\ UNCHANGED <<input, strategy, result, emotionVotes, emotion, label,
                 formatted>>
  /\ UNCHANGED aggVars
  /\ UNCHANGED flowVars
  /\ UNCHANGED chatVars
  /\ UNCHANGED loaderVars

Next ==
  \/ \E in \in Inputs, strat \in Strategies : CallFuseEmotions(in, strat)
  \/ \E e \in Labels : CallNormalizeEmotion(e)

Spec == Init /\ [][Next]_vars

\* the two label functions on their own
NextText ==
  \/ \E e \in Labels : CallNormalizeEmotion(e)
  \/ \E t \in Texts : CallExtractEmotionFromText(t)

SpecText == Init /\ [][NextText]_vars

\* every keyword of the extractor on its own, and texts around "unhappy"
\* and "calm"
ShadowStrings ==
  { "happy", "joy", "sad", "unhappy", "angry", "upset", "afraid", "scared",
    "surprised", "amazed", "disgusted", "neutral", "calm", "anxious",
    "worried", "excited", "frustrated", "confused",
    "so unhappy and sad", "neutral, calm", "stay calm, not angry" }

ChannelTexts == Texts \cup ShadowStrings

\* a text extracted on its own, or fused as the only channel
NextChannels ==
  \/ \E t \in ChannelTexts : CallExtractEmotionFromText(t)
  \/ \E t \in ChannelTexts :
       CallFuseEmotions([facialEmotion |-> None, voiceEmotion |-> Some(t),
                         textEmotion |-> None], None)

SpecChannels == Init /\ [][NextChannels]_vars

(***************************************************************************)
(* formatEmotionResult, applied to the result of a fusion as the chat      *)
(* interface does.                                                         *)
(***************************************************************************)
\* Array.prototype.join
RECURSIVE join(_, _)
join(parts, separator) ==
  IF Len(parts) = 0 THEN ""
  ELSE IF Len(parts) = 1 THEN parts[1]
  ELSE parts[1] \o separator \o join(Tail(parts), separator)

\* result.breakdown.k as a condition: the key is set and its value is not ''
TruthyKey(breakdown, k) == k \in DOMAIN breakdown /\ breakdown[k] # ""

\* if (result.breakdown.k) breakdown.push(`Name: ${result.breakdown.k}`)
PushIf(list, breakdown, k, name) ==
  IF TruthyKey(breakdown, k)
  THEN Append(list, name \o ": " \o breakdown[k])
  ELSE list

formatEmotionResult(res) ==
  LET b == res.breakdown
      breakdown ==
        PushIf(PushIf(PushIf(<<>>, b, "facial", "Face"), b, "voice", "Voice"),
               b, "text", "Text")
      parts ==
        IF /\ TruthyKey(b, "facial") \/ TruthyKey(b, "voice")
                                     \/ TruthyKey(b, "text")
           /\ Len(breakdown) > 0
        THEN <<res.finalEmotion, "(" \o join(breakdown, ", ") \o ")">>
        ELSE <<res.finalEmotion>>
  IN  join(parts, " ")

\* the fusion inputs whose result is formatted
FormatInputs ==
  [facialEmotion : {None, Some([emotion |-> "Happy", confidence |-> 85])},
   voiceEmotion : ChannelStrings, textEmotion : ChannelStrings]

\* formatEmotionResult(fusedResult) on the result of the fusion
CallFormatEmotionResult ==
  /\ pc = "fuseEmotions"
  /\ pc' = "formatEmotionResult"
  /\ formatted' = Some(formatEmotionResult(result))
  /\ UNCHANGED <<input, strategy, result, emotionVotes, emotion, label,
                 rawText, extracted>>
  /\ UNCHANGED aggVars
  /\ UNCHANGED flowVars
  /\ UNCHANGED chatVars
  /\ UNCHANGED loaderVars

NextFormat ==
  \/ \E in \in FormatInputs : CallFuseEmotions(in, None)
  \/ CallFormatEmotionResult

SpecFormat == Init /\ [][NextFormat]_vars

(***************************************************************************)
(* The facial detector.  Probabilities and confidences are in hundredths;  *)
(* a mean is the exact pair <<sum, count>>.  The probabilities face-api    *)
(* returns are 32-bit floats, so the sum of a few of them is exact in a    *)
(* double and the correctly rounded quotient orders as the exact one.      *)
(***************************************************************************)
\* the expression names of face-api, in the order of its expressions object
FaceApiLabels ==
  <<"neutral", "happy", "sad", "angry", "fearful", "disgusted", "surprised">>

\* an expressions object: one probability per expression name
Expressions(neutral, happy, sad) ==
  [k \in 1..Len(FaceApiLabels) |->
     <<FaceApiLabels[k],
       CASE k = 1 -> neutral [] k = 2 -> happy [] k = 3 -> sad [] OTHER -> 0>>]

\* the expressions objects the classifier reports for a frame with a face
FrameExpressions ==
  { Expressions(10, 80, 10), Expressions(30, 40, 30),
    Expressions(20, 20, 60), Expressions(20, 0, 80) }

\* what one frame holds: no face / a failure (null), or a face
FrameOutcomes == {None} \cup {Some(e) : e \in FrameExpressions}

\* a < b for the quotients a[1]/a[2] and b[1]/b[2]
Less(a, b) == a[1] * b[2] < b[1] * a[2]

\* entries.reduce((prev, current) => current[1] > prev[1] ? current : prev)
\* over entries <<key, number>>
reduceDominant_LastWins(entries) ==
  LET upTo[n \in 1..Len(entries)] ==
        IF n = 1 THEN entries[1]
        ELSE LET prev == upTo[n - 1]
                 current == entries[n]
             IN IF ~Less(current[2], prev[2]) THEN current ELSE prev
  IN upTo[Len(entries)]

reduceDominant(entries) ==
  LET upTo[n \in 1..Len(entries)] ==
        IF n = 1 THEN entries[1]
        ELSE LET prev == upTo[n - 1]
                 current == entries[n]
             IN IF Less(prev[2], current[2]) THEN current ELSE prev
  IN upTo[Len(entries)]

\* detectFacialExpression, given what the frame holds
detectFacialExpression_Mapped(frame) ==
  IF frame = None THEN None
  ELSE LET dominantExpression ==
             reduceDominant([k \in 1..Len(frame[1]) |->
                               <<frame[1][k][1], <<frame[1][k][2], 1>>>>])
       IN Some([emotion |-> capitalize(dominantExpression[1]),
                confidence |-> dominantExpression[2][1]])

detectFacialExpression(frame) ==
  IF frame = None THEN None
  ELSE LET dominantExpression ==
             reduceDominant([k \in 1..Len(frame[1]) |->
                               <<frame[1][k][1], <<frame[1][k][2], 1>>>>])
       IN Some([emotion |-> dominantExpression[1],
                confidence |-> dominantExpression[2][1]])

\* if (detection) detections.push(detection)
Collect_KeepMissing(collected, detection) ==
  IF detection = None
  THEN Append(collected, [emotion |-> "neutral", confidence |-> 0])
  ELSE Append(collected, detection[1])

Collect(collected, detection) ==
  IF detection = None THEN collected ELSE Append(collected, detection[1])

\* if (!emotionCounts[k]) emotionCounts[k] = []; emotionCounts[k].push(c)
PushConfidence(obj, k, c) ==
  IF HasOwn(obj, k)
  THEN [j \in 1..Len(obj) |->
          IF obj[j][1] = k THEN <<k, Append(obj[j][2], c)>> ELSE obj[j]]
  ELSE Append(obj, <<k, <<c>>>>)

\* detections.forEach(d => ...) building emotionCounts
RECURSIVE emotionCounts(_)
emotionCounts(collected) ==
  IF collected = <<>> THEN EmptyObject
  ELSE LET d == collected[Len(collected)]
       IN PushConfidence(emotionCounts(SubSeq(collected, 1, Len(collected) - 1)),
                         d.emotion, d.confidence)

\* confidences.reduce((a, b) => a + b, 0)
RECURSIVE SumOf(_)
SumOf(confidences) ==
  IF confidences = <<>> THEN 0
  ELSE confidences[1] + SumOf(Tail(confidences))

\* avgEmotions: the mean of every entry of emotionCounts
avgEmotions(collected) ==
  LET counts == emotionCounts(collected)
  IN [j \in 1..Len(counts) |->
        <<counts[j][1], <<SumOf(counts[j][2]), Len(counts[j][2])>>>>]

\* the statements after the loop: the value the call returns
Aggregate_NeutralDefault(collected) ==
  IF Len(collected) = 0
  THEN Some([emotion |-> "neutral", confidence |-> <<0, 1>>,
             allEmotions |-> EmptyObject])
  ELSE LET dominantEmotion == reduceDominant(avgEmotions(collected))
       IN Some([emotion |-> dominantEmotion[1],
                confidence |-> dominantEmotion[2],
                allEmotions |-> avgEmotions(collected)])

Aggregate(collected) ==
  IF Len(collected) = 0 THEN None
  ELSE LET dominantEmotion == reduceDominant(avgEmotions(collected))
       IN Some([emotion |-> dominantEmotion[1],
                confidence |-> dominantEmotion[2],
                allEmotions |-> avgEmotions(collected)])

\* if (i < numFrames - 1) await new Promise(... setTimeout ...)
PauseDue_AfterEvery(index, n) == index < n

PauseDue(index, n) == index < n - 1

\* detectFacialExpressionMultiFrame(videoElement, n) is called
CallDetectMultiFrame(n) ==
  /\ aggPc = "idle"
  /\ aggPc' = "loop"
  /\ numFrames' = n
  /\ frameIndex' = 0
  /\ detections' = <<>>
  /\ UNCHANGED <<frames, calls, pauses, inFlight, returned>>
  /\ UNCHANGED callVars
  /\ UNCHANGED flowVars
  /\ UNCHANGED chatVars
  /\ UNCHANGED loaderVars

\* i < numFrames: the body starts detectFacialExpression and awaits it
StartDetection ==
  /\ aggPc = "loop"
  /\ frameIndex < numFrames
  /\ aggPc' = "detecting"
  /\ calls' = calls + 1
  /\ inFlight' = inFlight + 1
  /\ UNCHANGED <<numFrames, frameIndex, detections, frames, pauses, returned>>
  /\ UNCHANGED callVars
  /\ UNCHANGED flowVars
  /\ UNCHANGED chatVars
  /\ UNCHANGED loaderVars

\* the awaited detection resolves; the sample is kept; the pause starts, or
\* the iteration ends
DetectionResolves(frame) ==
  /\ aggPc = "detecting"
  /\ inFlight' = inFlight - 1
  /\ frames' = Append(frames, detectFacialExpression(frame))
  /\ detections' = Collect(detections, detectFacialExpression(frame))
  /\ IF PauseDue(frameIndex, numFrames)
     THEN /\ aggPc' = "pausing"
          /\ pauses' = pauses + 1
          /\ frameIndex' = frameIndex
     ELSE /\ aggPc' = "loop"
          /\ pauses' = pauses
          /\ frameIndex' = frameIndex + 1
  /\ UNCHANGED <<numFrames, calls, returned>>
  /\ UNCHANGED callVars
  /\ UNCHANGED flowVars
  /\ UNCHANGED chatVars
  /\ UNCHANGED loaderVars

\* the timer fires: the iteration ends
PauseElapses ==
  /\ aggPc = "pausing"
  /\ aggPc' = "loop"
  /\ frameIndex' = frameIndex + 1
  /\ UNCHANGED <<numFrames, detections, frames, calls, pauses, inFlight,
                 returned>>
  /\ UNCHANGED callVars
  /\ UNCHANGED flowVars
  /\ UNCHANGED chatVars
  /\ UNCHANGED loaderVars

\* i >= numFrames: the loop is left and the samples are aggregated
ReturnAggregate ==
  /\ aggPc = "loop"
  /\ ~(frameIndex < numFrames)
  /\ aggPc' = "done"
  /\ returned' = Aggregate(detections)
  /\ UNCHANGED <<numFrames, frameIndex, detections, frames, calls, pauses, inFlight>>
  /\ UNCHANGED callVars
  /\ UNCHANGED flowVars
  /\ UNCHANGED chatVars
  /\ UNCHANGED loaderVars

NextAggregate ==
  \/ \E n \in 0..MaxFrames : CallDetectMultiFrame(n)
  \/ StartDetection
  \/ \E frame \in FrameOutcomes : DetectionResolves(frame)
  \/ PauseElapses
  \/ ReturnAggregate

SpecAggregate == Init /\ [][NextAggregate]_vars

(***************************************************************************)
(* analyzeUserEmotionFlow.  A prompt call throws, or resolves with an      *)
(* output that may be missing (output?.emotion) or hold any string.        *)
(***************************************************************************)
\* what a prompt call can do
PromptOutcomes ==
  {[throws |-> TRUE, emotion |-> None], [throws |-> FALSE, emotion |-> None]}
    \cup {[throws |-> FALSE, emotion |-> Some(e)] : e \in {"Happy", "Sad", ""}}

\* the arguments of the flow: text is required, the others optional
FlowInputs ==
  [facialEmotion : {None, Some([emotion |-> "Angry", confidence |-> 85])},
   audioDataUri : {None, Some(""), Some("data:audio/webm;base64,AAAA")},
   text : {"", "hello", "I am sad"}]

\* try { result.k = (await prompt(...)).output?.emotion } catch { log }
ClassifiedEmotion_NeutralOnError(outcome) ==
  IF outcome.throws THEN Some("Neutral") ELSE outcome.emotion

ClassifiedEmotion(outcome) ==
  IF outcome.throws THEN None ELSE outcome.emotion

\* a || b on optional strings
FirstTruthy(a, b) == IF TruthyStr(a) THEN a ELSE b

\* x && `Name: ${x}`, kept by filter(Boolean)
Tagged(name, x) == IF TruthyStr(x) THEN <<name \o ": " \o x[1]>> ELSE <<>>

\* the statements after the text analysis: fusedEmotion and emotionalState
FinishFlow(res) ==
  LET fused ==
        FirstTruthy(res.facialEmotion,
          FirstTruthy(res.voiceEmotion,
            FirstTruthy(res.textEmotion, Some("Neutral"))))[1]
      emotions ==
        Tagged("Face", res.facialEmotion) \o Tagged("Voice", res.voiceEmotion)
          \o Tagged("Text", res.textEmotion)
  IN  [res EXCEPT
         !.fusedEmotion = Some(fused),
         !.emotionalState =
           IF Len(emotions) > 0
           THEN fused \o " (" \o join(emotions, ", ") \o ")"
           ELSE IF fused # "" THEN fused ELSE "Neutral"]

\* where the flow goes once the voice analysis is over or skipped
AfterVoice(in, res) ==
  IF in.text # ""
  THEN [pc |-> "awaitText", result |-> res]
  ELSE [pc |-> "done", result |-> FinishFlow(res)]

\* the flow is called: the facial label is copied, the voice prompt is
\* called if there is audio
CallAnalyzeUserEmotionFlow(in) ==
  /\ flowPc = "idle"
  /\ flowInput' = Some(in)
  /\ LET res == [emotionalState |-> "",
                 facialEmotion |->
                   IF in.facialEmotion # None
                   THEN Some(in.facialEmotion[1].emotion) ELSE None,
                 voiceEmotion |-> None, textEmotion |-> None,
                 fusedEmotion |-> None]
     IN  IF TruthyStr(in.audioDataUri)
         THEN flowPc' = "awaitVoice" /\ flowResult' = Some(res)
         ELSE /\ flowPc' = AfterVoice(in, res).pc
              /\ flowResult' = Some(AfterVoice(in, res).result)
  /\ UNCHANGED <<voiceOutcome, textOutcome>>
  /\ UNCHANGED callVars
  /\ UNCHANGED aggVars
  /\ UNCHANGED chatVars
  /\ UNCHANGED loaderVars

\* the voice prompt resolves or throws
VoicePromptSettles(outcome) ==
  /\ flowPc = "awaitVoice"
  /\ voiceOutcome' = Some(outcome)
  /\ LET res == [flowResult[1] EXCEPT
                   !.voiceEmotion = ClassifiedEmotion(outcome)]
     IN  /\ flowPc' = AfterVoice(flowInput[1], res).pc
         /\ flowResult' = Some(AfterVoice(flowInput[1], res).result)
  /\ UNCHANGED <<flowInput, textOutcome>>
  /\ UNCHANGED callVars
  /\ UNCHANGED aggVars
  /\ UNCHANGED chatVars
  /\ UNCHANGED loaderVars

\* the text prompt resolves or throws; the flow returns
TextPromptSettles(outcome) ==
  /\ flowPc = "awaitText"
  /\ textOutcome' = Some(outcome)
  /\ flowPc' = "done"
  /\ flowResult' =
       Some(FinishFlow([flowResult[1] EXCEPT
                          !.textEmotion = ClassifiedEmotion(outcome)]))
  /\ UNCHANGED <<flowInput, voiceOutcome>>
  /\ UNCHANGED callVars
  /\ UNCHANGED aggVars
  /\ UNCHANGED chatVars
  /\ UNCHANGED loaderVars

NextFlow ==
  \/ \E in \in FlowInputs : CallAnalyzeUserEmotionFlow(in)
  \/ \E outcome \in PromptOutcomes : VoicePromptSettles(outcome)
  \/ \E outcome \in PromptOutcomes : TextPromptSettles(outcome)

SpecFlow == Init /\ [][NextFlow]_vars

(***************************************************************************)
(* The chat interface.  An event handler sees the state of the render it   *)
(* was created in.  The handlers of the form are those of the latest       *)
(* render; mediaRecorder.onstop is created once, inside setupMedia, which  *)
(* useCallback keeps for as long as toast is the same function, so the     *)
(* processInteraction it calls is the one of the first render.             *)
(***************************************************************************)
\* emotionMap[faceApiEmotion] || faceApiEmotion
mapFaceApiEmotion(faceApiEmotion) ==
  CASE faceApiEmotion = "neutral"   -> "Neutral"
    [] faceApiEmotion = "happy"     -> "Happy"
    [] faceApiEmotion = "sad"       -> "Sad"
    [] faceApiEmotion = "angry"     -> "Angry"
    [] faceApiEmotion = "fearful"   -> "Fearful"
    [] faceApiEmotion = "disgusted" -> "Disgusted"
    [] faceApiEmotion = "surprised" -> "Surprised"
    [] OTHER -> faceApiEmotion

\* x || null for x : string | undefined
OrNull(x) == IF TruthyStr(x) THEN x ELSE None

\* the state the processInteraction called by onstop closes over
SetupRender == [faceApiLoaded |-> FALSE, conversationHistory |-> ""]

\* the state the processInteraction called by the form closes over
CurrentRender ==
  [faceApiLoaded |-> faceApiLoaded, conversationHistory |-> conversationHistory]

\* what the camera shows during a turn
TurnFrames == {None, Some(Expressions(10, 80, 10))}

\* what analyzeEmotionAction does
AnalysisOutcomes ==
  { [throws |-> TRUE, voiceEmotion |-> None, textEmotion |-> None],
    [throws |-> FALSE, voiceEmotion |-> None, textEmotion |-> Some("Sad")] }

\* what generateResponseAction does
ResponseOutcomes ==
  {[throws |-> TRUE, response |-> ""], [throws |-> FALSE, response |-> "ok"]}

TypedTexts == {"hi"}

Transcripts == {"yo"}

\* turns begun or still to come from a recording
PendingTurns ==
  Len(turns) + Len(stopQueued) + Len(converting)
    + (IF recorderState = "recording" THEN 1 ELSE 0)

ConnectionTrouble ==
  "I'm having trouble connecting. Please try again in a moment."

\* the sequence without its element j
Remove(seq, j) == SubSeq(seq, 1, j - 1) \o SubSeq(seq, j + 1, Len(seq))

\* processInteraction up to its first await, in the render it closes over
ProcessInteraction(render, voice, text, frame, loaded) ==
  IF trim(text) = ""
  THEN /\ isLoading' = FALSE
       /\ UNCHANGED <<messages, turns>>
  ELSE /\ messages' =
            Append(messages, [role |-> "user", turn |-> Len(turns) + 1,
                              content |-> text])
       /\ isLoading' = TRUE
       /\ turns' =
            Append(turns,
                   [pc |-> IF render.faceApiLoaded THEN "detecting"
                           ELSE "analyzing",
                    voice |-> voice, text |-> text, render |-> render,
                    loaded |-> loaded, frame |-> frame,
                    facial |-> None, fuseInput |-> None,
                    displayEmotion |-> None, passedHistory |-> None,
                    failed |-> FALSE])

\* handleTextSubmit: the form is submitted or Enter is pressed
SubmitText(t, frame) ==
  /\ ~(trim(t) = "" \/ isLoading)
  /\ PendingTurns < MaxTurns
  /\ ProcessInteraction(CurrentRender, FALSE, t, frame, faceApiLoaded)
  /\ UNCHANGED <<faceApiLoaded, conversationHistory, isRecording,
                 recorderState, transcript, stopQueued, converting>>
  /\ UNCHANGED pressedWith
  /\ UNCHANGED <<callVars, aggVars, flowVars, loaderVars>>

\* handleRecordButtonPress; the button is disabled while isLoading
Press ==
  /\ ~isLoading
  /\ recorderState # "recording"
  /\ PendingTurns < MaxTurns
  /\ isRecording' = TRUE
  /\ recorderState' = "recording"
  /\ pressedWith' = [loaded |-> faceApiLoaded]
  /\ UNCHANGED <<isLoading, faceApiLoaded, conversationHistory, messages,
                 transcript, stopQueued, converting, turns>>
  /\ UNCHANGED <<callVars, aggVars, flowVars, loaderVars>>

\* recognition.onresult with a final transcript
Transcribe(t) ==
  /\ recorderState = "recording"
  /\ transcript # t
  /\ transcript' = t
  /\ UNCHANGED <<isLoading, faceApiLoaded, conversationHistory, messages,
                 isRecording, recorderState, stopQueued, converting, turns>>
  /\ UNCHANGED pressedWith
  /\ UNCHANGED <<callVars, aggVars, flowVars, loaderVars>>

\* handleRecordButtonRelease: the recorder is stopped, its stop event queued
Release ==
  /\ ~isLoading
  /\ isRecording
  /\ recorderState = "recording"
  /\ isRecording' = FALSE
  /\ recorderState' = "inactive"
  /\ stopQueued' = Append(stopQueued, pressedWith)
  /\ UNCHANGED <<isLoading, faceApiLoaded, conversationHistory, messages,
                 transcript, converting, turns>>
  /\ UNCHANGED pressedWith
  /\ UNCHANGED <<callVars, aggVars, flowVars, loaderVars>>

\* onstop up to await blobToBase64(videoBlob)
OnStop ==
  /\ Len(stopQueued) > 0
  /\ stopQueued' = Tail(stopQueued)
  /\ converting' = Append(converting, Head(stopQueued))
  /\ UNCHANGED <<isLoading, faceApiLoaded, conversationHistory, messages,
                 isRecording, recorderState, transcript, turns>>
  /\ UNCHANGED pressedWith
  /\ UNCHANGED <<callVars, aggVars, flowVars, loaderVars>>

\* a FileReader fails: the handler ends with a rejection nobody handles
ConversionFails(j) ==
  /\ converting' = Remove(converting, j)
  /\ UNCHANGED <<isLoading, faceApiLoaded, conversationHistory, messages,
                 isRecording, recorderState, transcript, stopQueued, turns>>
  /\ UNCHANGED pressedWith
  /\ UNCHANGED <<callVars, aggVars, flowVars, loaderVars>>

\* onstop after the conversions: the transcript is taken and processed
ConversionsDone(j, frame) ==
  /\ converting' = Remove(converting, j)
  /\ transcript' = ""
  /\ ProcessInteraction(SetupRender, TRUE, transcript, frame,
                        converting[j].loaded)
  /\ UNCHANGED <<faceApiLoaded, conversationHistory, isRecording,
                 recorderState, stopQueued>>
  /\ UNCHANGED pressedWith
  /\ UNCHANGED <<callVars, aggVars, flowVars, loaderVars>>

\* the loadFaceApiModels() of the mount effect resolves
FaceApiLoads ==
  /\ ~faceApiLoaded
  /\ faceApiLoaded' = TRUE
  /\ UNCHANGED <<isLoading, conversationHistory, messages, isRecording,
                 recorderState, transcript, stopQueued, converting, turns>>
  /\ UNCHANGED pressedWith
  /\ UNCHANGED <<callVars, aggVars, flowVars, loaderVars>>

\* await detectFacialExpression(videoRef.current) resolves
FaceSettles(k) ==
  /\ turns[k].pc = "detecting"
  /\ LET faceResult == detectFacialExpression(turns[k].frame)
     IN  turns' =
           [turns EXCEPT
              ![k].pc = "analyzing",
              ![k].facial =
                IF faceResult # None
                THEN Some([emotion |-> mapFaceApiEmotion(faceResult[1].emotion),
                           confidence |-> faceResult[1].confidence])
                ELSE None]
  /\ UNCHANGED <<isLoading, faceApiLoaded, conversationHistory, messages,
                 isRecording, recorderState, transcript, stopQueued,
                 converting>>
  /\ UNCHANGED pressedWith
  /\ UNCHANGED <<callVars, aggVars, flowVars, loaderVars>>

\* the failure path without the finally block
FailTurn_NoFinally(k) ==
  /\ messages' =
       Append(messages,
              [role |-> "ai", turn |-> k, content |-> ConnectionTrouble])
  /\ isLoading' = isLoading
  /\ turns' = [turns EXCEPT ![k].pc = "finished", ![k].failed = TRUE]
  /\ UNCHANGED conversationHistory

\* catch and finally of processInteraction
FailTurn(k) ==
  /\ messages' =
       Append(messages,
              [role |-> "ai", turn |-> k, content |-> ConnectionTrouble])
  /\ isLoading' = FALSE
  /\ turns' = [turns EXCEPT ![k].pc = "finished", ![k].failed = TRUE]
  /\ UNCHANGED conversationHistory

\* await analyzeEmotionAction(emotionPayload) settles
AnalysisSettles(k, outcome) ==
  /\ turns[k].pc = "analyzing"
  /\ IF outcome.throws
     THEN FailTurn(k)
     ELSE LET in == [facialEmotion |-> turns[k].facial,
                     voiceEmotion |-> OrNull(outcome.voiceEmotion),
                     textEmotion |-> OrNull(outcome.textEmotion)]
          IN  \E fusedResult \in {fuseEmotions(in, None)} :
              /\ turns' =
                   [turns EXCEPT
                      ![k].pc = "responding",
                      ![k].fuseInput = Some(in),
                      ![k].displayEmotion =
                        Some(formatEmotionResult(fusedResult)),
                      ![k].passedHistory =
                        Some(turns[k].render.conversationHistory)]
              /\ UNCHANGED <<isLoading, conversationHistory, messages>>
  /\ UNCHANGED <<faceApiLoaded, isRecording, recorderState, transcript,
                 stopQueued, converting>>
  /\ UNCHANGED pressedWith
  /\ UNCHANGED <<callVars, aggVars, flowVars, loaderVars>>

\* await generateResponseAction(...) settles
ResponseSettles(k, outcome) ==
  /\ turns[k].pc = "responding"
  /\ IF outcome.throws
     THEN FailTurn(k)
     ELSE /\ messages' =
               Append(messages,
                      [role |-> "ai", turn |-> k, content |-> outcome.response])
          /\ conversationHistory' =
               turns[k].render.conversationHistory \o "\nUser: "
                 \o turns[k].text \o "\nAI: " \o outcome.response
          /\ isLoading' = FALSE
          /\ turns' = [turns EXCEPT ![k].pc = "finished"]
  /\ UNCHANGED <<faceApiLoaded, isRecording, recorderState, transcript,
                 stopQueued, converting>>
  /\ UNCHANGED pressedWith
  /\ UNCHANGED <<callVars, aggVars, flowVars, loaderVars>>

NextChat ==
  \/ \E t \in TypedTexts, frame \in TurnFrames : SubmitText(t, frame)
  \/ Press
  \/ \E t \in Transcripts : Transcribe(t)
  \/ Release
  \/ OnStop
  \/ \E j \in 1..Len(converting) : ConversionFails(j)
  \/ \E j \in 1..Len(converting), frame \in TurnFrames :
       ConversionsDone(j, frame)
  \/ FaceApiLoads
  \/ \E k \in 1..Len(turns) : FaceSettles(k)
  \/ \E k \in 1..Len(turns), outcome \in AnalysisOutcomes :
       AnalysisSettles(k, outcome)
  \/ \E k \in 1..Len(turns), outcome \in ResponseOutcomes :
       ResponseSettles(k, outcome)

SpecChat == Init /\ [][NextChat]_vars

\* every awaited call of a turn settles: it resolves or it rejects
TurnsSettle ==
  \A k \in 1..MaxTurns :
    /\ WF_vars(k \in 1..Len(turns) /\ FaceSettles(k))
    /\ WF_vars(k \in 1..Len(turns) /\
                 \E outcome \in AnalysisOutcomes : AnalysisSettles(k, outcome))
    /\ WF_vars(k \in 1..Len(turns) /\
                 \E outcome \in ResponseOutcomes : ResponseSettles(k, outcome))

\* the steps of a session of at most MaxFairTurns turns
NextChatFair ==
  \/ \E t \in TypedTexts, frame \in TurnFrames :
       PendingTurns < MaxFairTurns /\ SubmitText(t, frame)
  \/ PendingTurns < MaxFairTurns /\ Press
  \/ \E t \in Transcripts : Transcribe(t)
  \/ Release
  \/ OnStop
  \/ \E j \in 1..Len(converting) : ConversionFails(j)
  \/ \E j \in 1..Len(converting), frame \in TurnFrames :
       ConversionsDone(j, frame)
  \/ FaceApiLoads
  \/ \E k \in 1..Len(turns) : FaceSettles(k)
  \/ \E k \in 1..Len(turns), outcome \in AnalysisOutcomes :
       AnalysisSettles(k, outcome)
  \/ \E k \in 1..Len(turns), outcome \in ResponseOutcomes :
       ResponseSettles(k, outcome)

SpecChatFair == Init /\ [][NextChatFair]_vars /\ TurnsSettle


(***************************************************************************)
(* The model loader: loadFaceApiModels, called directly or by              *)
(* detectFacialExpression while the flag is false.                         *)
(***************************************************************************)
\* loadFaceApiModels up to its await: nothing to do, or the loads begin
EnterLoad(via) ==
  IF modelsLoaded
  THEN /\ loadCalls' = Append(loadCalls, [via |-> via, pc |-> "returned"])
       /\ UNCHANGED loadsStarted
  ELSE /\ loadCalls' = Append(loadCalls, [via |-> via, pc |-> "loading"])
       /\ loadsStarted' = loadsStarted + 1

\* loadFaceApiModels() is called
CallLoadFaceApiModels ==
  /\ Len(loadCalls) < MaxLoadCalls
  /\ EnterLoad("loadFaceApiModels")
  /\ UNCHANGED <<modelsLoaded, loadsFailed>>
  /\ UNCHANGED <<callVars, aggVars, flowVars, chatVars>>

\* detectFacialExpression(video) is called: if (!modelsLoaded) await load
CallDetectFacialExpression ==
  /\ Len(loadCalls) < MaxLoadCalls
  /\ EnterLoad("detectFacialExpression")
  /\ UNCHANGED <<modelsLoaded, loadsFailed>>
  /\ UNCHANGED <<callVars, aggVars, flowVars, chatVars>>

\* Promise.all([...loadFromUri]) resolves: modelsLoaded = true
LoadResolves(c) ==
  /\ loadCalls[c].pc = "loading"
  /\ modelsLoaded' = TRUE
  /\ loadCalls' = [loadCalls EXCEPT ![c].pc = "loaded"]
  /\ UNCHANGED <<loadsStarted, loadsFailed>>
  /\ UNCHANGED <<callVars, aggVars, flowVars, chatVars>>

\* Promise.all rejects: the error is logged and thrown again
LoadRejects(c) ==
  /\ loadCalls[c].pc = "loading"
  /\ loadsFailed' = loadsFailed + 1
  /\ loadCalls' = [loadCalls EXCEPT ![c].pc = "threw"]
  /\ UNCHANGED <<modelsLoaded, loadsStarted>>
  /\ UNCHANGED <<callVars, aggVars, flowVars, chatVars>>

NextLoader ==
  \/ CallLoadFaceApiModels
  \/ CallDetectFacialExpression
  \/ \E c \in 1..Len(loadCalls) : LoadResolves(c)
  \/ \E c \in 1..Len(loadCalls) : LoadRejects(c)

SpecLoader == Init /\ [][NextLoader]_vars

(***************************************************************************)
(* What the claims speak of, stated without the fusion's own code: the     *)
(* channels in their fixed order, the weight each one casts and the weight *)
(* a label should have gathered.                                           *)
(***************************************************************************)
Fused == pc = "fuseEmotions"

Majority == Fused /\ strategy = Some("majority")

Weighted == Fused /\ strategy # Some("majority")

Channels == <<"facial", "voice", "text">>

Present(ch) ==
  CASE ch = "facial" -> input.facialEmotion # None
    [] ch = "voice"  -> input.voiceEmotion \notin {None, Some("")}
    [] ch = "text"   -> input.textEmotion \notin {None, Some("")}

AllAbsent == \A i \in 1..3 : ~Present(Channels[i])

\* the label the result reports for a present channel
Reported(ch) ==
  IF ch \in DOMAIN result.breakdown THEN result.breakdown[ch] ELSE ""

ReportedLabels == {Reported(Channels[i]) : i \in {j \in 1..3 : Present(Channels[j])}}

\* tenths under weighted voting, votes under majority voting
Cast(ch) ==
  IF Majority THEN 1
  ELSE CASE ch = "facial" ->
              IF input.facialEmotion[1].confidence > 60 THEN 5 ELSE 3
         [] ch = "voice"  -> 3
         [] ch = "text"   -> 2

CastOn(ch, l) == IF Present(ch) /\ Reported(ch) = l THEN Cast(ch) ELSE 0

Accumulated(l) == CastOn("facial", l) + CastOn("voice", l) + CastOn("text", l)

TotalCast ==
  (IF Present("facial") THEN Cast("facial") ELSE 0) +
  (IF Present("voice") THEN Cast("voice") ELSE 0) +
  (IF Present("text") THEN Cast("text") ELSE 0)

\* the position of the first channel that reports l
FirstInserted(l) ==
  CHOOSE i \in 1..3 :
    /\ Present(Channels[i]) /\ Reported(Channels[i]) = l
    /\ \A j \in 1..(i - 1) : ~(Present(Channels[j]) /\ Reported(Channels[j]) = l)

\* l wins against m: more weight, or as much and inserted earlier
Beats(l, m) ==
  \/ Accumulated(l) > Accumulated(m)
  \/ Accumulated(l) = Accumulated(m) /\ FirstInserted(l) < FirstInserted(m)

IsWinner(l) == l \in ReportedLabels /\ \A m \in ReportedLabels \ {l} : Beats(l, m)

\* equality of two confidences <<numerator, denominator>>
SameNumber(a, b) == a[1] * b[2] = b[1] * a[2]

\* the raw label a present channel carries
RawLabel(ch) ==
  CASE ch = "facial" -> input.facialEmotion[1].emotion
    [] ch = "voice"  -> input.voiceEmotion[1]
    [] ch = "text"   -> input.textEmotion[1]

\* no taxonomy name and no keyword applies to the raw label of ch
Unmatched(ch) ==
  LET lower == toLowerCase(trim(RawLabel(ch)))
  IN  /\ FindStandard(lower) = 0
      /\ FirstRule(NormalizeRules, lower) = 0
      /\ ch # "facial" => extractEmotionFromText(RawLabel(ch)) = None

\* the raw label trimmed, its first character in upper case
Passthrough(ch) ==
  LET t == trim(RawLabel(ch))
  IN  IF t = "" THEN "" ELSE toUpperCaseChar(CharAt(t, 1)) \o Tail(t)

OwnKeys(obj) == {obj[i][1] : i \in 1..Len(obj)}

ResultFields == {"finalEmotion", "confidence", "breakdown", "fusionMethod"}

(***************************************************************************)
(* The claims.                                                             *)
(***************************************************************************)

\* C1: with the three channels absent fuseEmotions returns Neutral with
\* confidence 0.5 and an empty breakdown, whatever the strategy.
C1_AllAbsentFallback ==
  Fused /\ AllAbsent =>
    /\ result.finalEmotion = "Neutral"
    /\ SameNumber(result.confidence, <<1, 2>>)
    /\ DOMAIN result.breakdown = {}

C1_Witness ==
  /\ Fused /\ AllAbsent /\ strategy = Some("majority")
  /\ result.fusionMethod = "majority-voting"
  /\ result.finalEmotion = "Neutral"

\* C2: the breakdown has the key of a channel exactly when the channel is
\* present (non-null and non-empty, the test the code makes), and the key
\* holds the channel's label after normalization.
C2_BreakdownKeys ==
  Fused =>
    /\ DOMAIN result.breakdown = {Channels[i] : i \in {j \in 1..3 : Present(Channels[j])}}
    /\ Present("facial") =>
         result.breakdown["facial"] = normalizeEmotion(RawLabel("facial"))
    /\ \A ch \in {"voice", "text"} :
         Present(ch) =>
           result.breakdown[ch] =
             normalizeEmotion(OrElse(extractEmotionFromText(RawLabel(ch)),
                                     RawLabel(ch)))

C2_Witness ==
  /\ Fused
  /\ DOMAIN result.breakdown = {"facial", "text"}
  /\ input.voiceEmotion = None
  /\ result.breakdown["text"] = "Neutral"

\* C3 as stated: finalEmotion is always one of the twelve taxonomy labels.
C3_AlwaysInTaxonomy == Fused => result.finalEmotion \in Taxonomy

\* C3 as amended: finalEmotion is a taxonomy label, or it is the raw label
\* of a present channel, trimmed and with its first character capitalized,
\* when neither a taxonomy name nor a keyword applies to that raw label.
C3_TaxonomyOrPassthrough ==
  Fused =>
    \/ result.finalEmotion \in Taxonomy
    \/ \E i \in 1..3 :
         /\ Present(Channels[i])
         /\ Unmatched(Channels[i])
         /\ result.finalEmotion = Passthrough(Channels[i])

C3_Witness ==
  /\ Fused /\ input.textEmotion = Some("bored")
  /\ result.finalEmotion = "Bored"

\* C4: under weighted voting with a channel present, finalEmotion is the
\* label with the highest accumulated weight, the label inserted first
\* (facial, voice, text) winning a tie.
C4_WeightedWinner ==
  Weighted /\ ~AllAbsent => IsWinner(result.finalEmotion)

\* C5: under weighted voting the accumulator holds exactly the labels of
\* the present channels, each with the sum of the weights of the channels
\* that report it: facial 0.5 above confidence 0.6 and 0.3 otherwise,
\* voice 0.3, text 0.2.
C5_WeightsAccumulate ==
  Weighted =>
    /\ OwnKeys(emotionVotes) = ReportedLabels
    /\ \A l \in ReportedLabels :
         HasOwn(emotionVotes, l) /\ OwnValue(emotionVotes, l) = Accumulated(l)

\* C6: under weighted voting with a channel present the confidence is the
\* accumulated weight of the winning label, at most 1.0, and it is
\* greater than 0.
C6_WeightedConfidence ==
  Weighted /\ ~AllAbsent =>
    /\ SameNumber(result.confidence,
                  <<Min(Accumulated(result.finalEmotion), 10), 10>>)
    /\ result.confidence[1] > 0
    /\ result.confidence[1] <= result.confidence[2]

\* C7: under majority voting every present channel casts one vote, the
\* label with the most votes wins, the first inserted winning a tie, and
\* the confidence is the winner's votes over the votes cast: 1, 2/3, 1/2
\* or 1/3.
C7_MajorityWinner ==
  Majority /\ ~AllAbsent =>
    /\ \A l \in ReportedLabels :
         HasOwn(emotionVotes, l) /\ OwnValue(emotionVotes, l) = Accumulated(l)
    /\ IsWinner(result.finalEmotion)
    /\ SameNumber(result.confidence,
                  <<Accumulated(result.finalEmotion), TotalCast>>)
    /\ \E c \in {<<1, 1>>, <<2, 3>>, <<1, 2>>, <<1, 3>>} :
         SameNumber(result.confidence, c)

\* C8: for each of the eight present/absent combinations and each strategy
\* fuseEmotions returns a result with its four fields defined.
C8_CompleteResult ==
  Fused =>
    /\ DOMAIN result = ResultFields
    /\ result.fusionMethod \in {"weighted-voting", "majority-voting"}
    /\ result.confidence[2] > 0
    /\ DOMAIN result.breakdown \subseteq {"facial", "voice", "text"}

C8_Witness ==
  /\ Fused /\ AllAbsent /\ strategy = Some("weighted")
  /\ DOMAIN result = ResultFields

\* C9: the label of a present voice or text channel is what the extractor
\* finds in the raw string, which the normalizer leaves unchanged, and the
\* normalized raw string when the extractor finds nothing; the facial
\* label is the normalized raw label; only these labels are voted for.
C9_ExtractThenNormalize ==
  Fused =>
    /\ \A ch \in {"voice", "text"} :
         Present(ch) =>
           LET found == extractEmotionFromText(RawLabel(ch))
           IN  IF found # None
               THEN /\ Reported(ch) = found[1]
                    /\ normalizeEmotion(found[1]) = found[1]
               ELSE Reported(ch) = normalizeEmotion(RawLabel(ch))
    /\ Present("facial") =>
         Reported("facial") = normalizeEmotion(RawLabel("facial"))
    /\ OwnKeys(emotionVotes) \subseteq ReportedLabels

C9_Witness ==
  /\ Fused
  /\ input.voiceEmotion = Some("calm down") /\ Reported("voice") = "Calm"
  /\ input.textEmotion = Some("bored") /\ Reported("text") = "Bored"
  /\ Present("facial") /\ RawLabel("facial") = "upset"
  /\ Reported("facial") = "Upset"

\* C10: a string that, trimmed, is a taxonomy member in any letter case is
\* normalized to that member in its canonical spelling.
C10_ExactMatch ==
  pc = "normalizeEmotion" =>
    \A m \in Taxonomy :
      \A sp \in {m, toLowerCase(m), toUpperCase(m)} :
        \A a \in 0..MaxPad, b \in 0..MaxPad :
          emotion = Some(Blanks(a) \o sp \o Blanks(b)) => label = Some(m)

C10_Witness ==
  /\ pc = "normalizeEmotion"
  /\ emotion = Some(" calm")
  /\ label = Some("Calm")

(***************************************************************************)
(* The label functions, as the claims describe them.                       *)
(***************************************************************************)
Normalized == pc = "normalizeEmotion"

\* the argument, trimmed, is a taxonomy member in some letter case
ExactMatch(e) == \E m \in Taxonomy : toLowerCase(m) = toLowerCase(trim(e))

\* the keyword rules in the order the normalizer is said to try them
StatedRules ==
  << << {"happ", "joy"},      "Happy" >>,
     << {"sad", "depress"},   "Sad" >>,
     << {"ang", "mad"},       "Angry" >>,
     << {"fear", "scared"},   "Fearful" >>,
     << {"surpris", "shock"}, "Surprised" >>,
     << {"disgust"},          "Disgusted" >>,
     << {"neutr", "calm"},    "Neutral" >>,
     << {"anxi", "worr"},     "Anxious" >>,
     << {"excit"},            "Excited" >>,
     << {"frustrat"},         "Frustrated" >>,
     << {"confus"},           "Confused" >> >>

\* a keyword of rule i of a table occurs in s, letter case apart
Hit(rules, i, s) == \E k \in rules[i][1] : includes(toLowerCase(s), k)

\* rule i is the first rule of the table with a keyword in s
FirstHit(rules, i, s) ==
  Hit(rules, i, s) /\ \A j \in 1..(i - 1) : ~Hit(rules, j, s)

NoHit(rules, s) == \A i \in 1..Len(rules) : ~Hit(rules, i, s)

\* s with its first character in upper case
CapFirst(s) == IF s = "" THEN "" ELSE toUpperCaseChar(CharAt(s, 1)) \o Tail(s)

\* C11: an argument that is no exact match gets the target of the first
\* rule, in the stated order, with a keyword in it; "calm" inside a longer
\* string therefore gives Neutral and never Calm.
C11_FirstRuleWins ==
  Normalized /\ ~ExactMatch(emotion[1]) =>
    /\ \A i \in 1..Len(StatedRules) :
         FirstHit(StatedRules, i, emotion[1]) => label = Some(StatedRules[i][2])
    /\ label # Some("Calm")

C11_Witness ==
  /\ Normalized
  /\ emotion = Some("worried but calm")
  /\ label = Some("Neutral")

\* C12: a taxonomy member is normalized to itself, and normalizing the
\* result again changes nothing.
C12_Idempotent ==
  Normalized /\ emotion[1] \in Taxonomy =>
    /\ label = emotion
    /\ normalizeEmotion(label[1]) = label[1]

C12_Witness ==
  /\ Normalized
  /\ emotion = Some("Calm")
  /\ label = Some("Calm")

\* C13 as stated: with no exact match and no keyword the argument comes
\* back with its first character capitalized and is otherwise unchanged.
C13_InputCapitalized ==
  Normalized /\ ~ExactMatch(emotion[1]) /\ NoHit(StatedRules, emotion[1]) =>
    label = Some(CapFirst(emotion[1]))

\* the strings without surrounding blanks to which no rule applies
UnmatchedCores ==
  {s \in RawStrings \cup KeywordStrings :
     /\ s # "" /\ CharAt(s, 1) # " " /\ CharAt(s, Len(s)) # " "
     /\ ~ExactMatch(s) /\ NoHit(StatedRules, s)}

\* C13 as amended: with no exact match and no keyword the argument comes
\* back without its surrounding whitespace, its first character
\* capitalized and otherwise unchanged; every call returns a string.
C13_TrimmedCapitalized ==
  Normalized =>
    /\ Len(label) = 1
    /\ \A s \in UnmatchedCores :
         \A a \in 0..MaxPad, b \in 0..MaxPad :
           emotion = Some(Blanks(a) \o s \o Blanks(b)) =>
             label = Some(CapFirst(s))
    /\ \A n \in 1..(2 * MaxPad + 1) : emotion = Some(Blanks(n)) => label = Some("")

C13_Witness ==
  /\ Normalized
  /\ emotion = Some(" bored ")
  /\ label = Some("Bored")

Extracted == pc = "extractEmotionFromText"

\* taxonomy member i is named in s, letter case apart
Named(i, s) == includes(toLowerCase(s), toLowerCase(STANDARD_EMOTIONS[i]))

\* C14: the extractor returns the first member of the taxonomy, in its
\* canonical order, named in the text; failing that the target of the
\* first rule of its keyword table with a keyword in the text; and null
\* when the text has neither, the empty text included.
C14_ExtractOrder ==
  Extracted =>
    LET t       == rawText[1]
        unnamed == \A i \in 1..Len(STANDARD_EMOTIONS) : ~Named(i, t)
    IN  /\ \A i \in 1..Len(STANDARD_EMOTIONS) :
             Named(i, t) /\ (\A j \in 1..(i - 1) : ~Named(j, t)) =>
               extracted = Some(STANDARD_EMOTIONS[i])
        /\ unnamed =>
             \A i \in 1..Len(ExtractRules) :
               FirstHit(ExtractRules, i, t) => extracted = Some(ExtractRules[i][2])
        /\ unnamed /\ NoHit(ExtractRules, t) => extracted = None
        /\ t = "" => extracted = None

C14_Witness ==
  /\ Extracted
  /\ rawText = Some("Sad but happy")
  /\ extracted = Some("Happy")

(***************************************************************************)
(* The multi-frame facial detector, as the claims describe it.             *)
(***************************************************************************)
Aggregated == aggPc = "done"

\* the invocations that resolved with a sample
Seen == {k \in 1..Len(frames) : frames[k] # None}

SeenLabels == {frames[k][1].emotion : k \in Seen}

\* the samples of one label among the first n invocations
RECURSIVE LabelSum(_, _)
LabelSum(l, n) ==
  IF n = 0 THEN 0
  ELSE LabelSum(l, n - 1)
         + (IF n \in Seen /\ frames[n][1].emotion = l
            THEN frames[n][1].confidence ELSE 0)

LabelCount(l) == Cardinality({k \in Seen : frames[k][1].emotion = l})

MeanOf(l) == <<LabelSum(l, Len(frames)), LabelCount(l)>>

FirstSeen(l) ==
  CHOOSE k \in Seen :
    /\ frames[k][1].emotion = l
    /\ \A j \in Seen : frames[j][1].emotion = l => k <= j

Sample(e, c) == Some([emotion |-> e, confidence |-> c])

\* C15: the multi-frame detector returns null whenever no frame of the run
\* yielded a detection: every classifier invocation returned nothing, or
\* numFrames is 0.
C15_NullWithoutSamples ==
  Aggregated /\ Seen = {} => returned = None

C15_Witness ==
  /\ Aggregated
  /\ numFrames = 3
  /\ frames = <<None, None, None>>
  /\ returned = None

\* C16: with at least one sample, the returned emotion is the label with
\* the highest mean confidence, the label seen first among those with the
\* highest mean; the returned confidence is that mean, the pair is an entry
\* of allEmotions and no value of allEmotions is larger.
C16_HighestMean ==
  Aggregated /\ Seen # {} =>
    /\ returned # None
    /\ LET r == returned[1]
           w == r.emotion
       IN  /\ w \in SeenLabels
           /\ SameNumber(r.confidence, MeanOf(w))
           /\ \A m \in SeenLabels \ {w} :
                \/ Less(MeanOf(m), MeanOf(w))
                \/ /\ SameNumber(MeanOf(m), MeanOf(w))
                   /\ FirstSeen(w) < FirstSeen(m)
           /\ \E j \in 1..Len(r.allEmotions) :
                r.allEmotions[j] = <<w, r.confidence>>
           /\ \A j \in 1..Len(r.allEmotions) :
                ~Less(r.confidence, r.allEmotions[j][2])

C16_Witness ==
  /\ Aggregated
  /\ frames = <<Sample("sad", 60), Sample("happy", 80), Sample("sad", 60),
                Sample("happy", 80), Sample("happy", 80)>>
  /\ returned # None
  /\ returned[1].emotion = "happy"
  /\ SameNumber(returned[1].confidence, <<80, 1>>)

\* C17: allEmotions has exactly one entry per label among the samples, and
\* its value is the mean of the confidences of the samples of that label;
\* an invocation without a detection adds no entry and counts in no sum and
\* in no divisor.
C17_MeanPerLabel ==
  Aggregated /\ returned # None =>
    LET all == returned[1].allEmotions
    IN  /\ {all[j][1] : j \in 1..Len(all)} = SeenLabels
        /\ Len(all) = Cardinality(SeenLabels)
        /\ \A j \in 1..Len(all) : SameNumber(all[j][2], MeanOf(all[j][1]))

C17_Witness ==
  /\ Aggregated
  /\ frames = <<Sample("happy", 80), None, Sample("happy", 40),
                Sample("sad", 60)>>
  /\ returned # None
  /\ returned[1].allEmotions = <<<<"happy", <<120, 2>>>>, <<"sad", <<60, 1>>>>>>

\* C18: a run invokes the classifier numFrames times, one at a time: an
\* invocation starts only when every earlier one has resolved and the pause
\* after it has elapsed; a pause follows each invocation but the last; an
\* invocation without a detection does not end the run.
C18_Sequential ==
  /\ inFlight <= 1
  /\ aggPc = "detecting" =>
       inFlight = 1 /\ calls = Len(frames) + 1 /\ pauses = Len(frames)
  /\ aggPc = "pausing" =>
       inFlight = 0 /\ calls = Len(frames) /\ pauses = calls
  /\ aggPc = "loop" =>
       inFlight = 0 /\ calls = Len(frames) /\ calls <= numFrames
  /\ aggPc # "done" => pauses <= calls /\ calls <= pauses + 1
  /\ Aggregated =>
       /\ inFlight = 0
       /\ calls = numFrames
       /\ Len(frames) = numFrames
       /\ pauses = (IF numFrames = 0 THEN 0 ELSE numFrames - 1)

C18_Witness ==
  /\ Aggregated
  /\ numFrames = 4
  /\ frames = <<None, Sample("sad", 80), None, None>>
  /\ calls = 4
  /\ pauses = 3

\* C19 as stated: the emotion the multi-frame detector returns is a
\* normalized label, a member of the taxonomy.
C19_NormalizedMember ==
  Aggregated /\ returned # None =>
    /\ returned[1].emotion \in Taxonomy
    /\ normalizeEmotion(returned[1].emotion) = returned[1].emotion

\* C19: the emotion the multi-frame detector returns is the label of one
\* of the samples, as the classifier reported it: a face-api expression
\* name, not normalized.
C19_RawLabel ==
  Aggregated /\ returned # None =>
    /\ returned[1].emotion \in SeenLabels
    /\ \E k \in 1..Len(FaceApiLabels) : returned[1].emotion = FaceApiLabels[k]

C19_Witness ==
  /\ Aggregated
  /\ frames = <<Sample("happy", 80)>>
  /\ returned # None
  /\ returned[1].emotion = "happy"
  /\ normalizeEmotion("happy") = "Happy"

(***************************************************************************)
(* formatEmotionResult, as the claim describes it.                         *)
(***************************************************************************)
Formatted == pc = "formatEmotionResult"

\* the breakdown entries that are present, in facial, voice, text order
ListedAfter(n) ==
  LET names == <<"Face", "Voice", "Text">>
      RECURSIVE upTo(_)
      upTo(k) ==
        IF k = 0 THEN <<>>
        ELSE IF Channels[k] \in DOMAIN result.breakdown
             THEN Append(upTo(k - 1),
                         names[k] \o ": " \o result.breakdown[Channels[k]])
             ELSE upTo(k - 1)
  IN  upTo(n)

RECURSIVE CommaSeparated(_)
CommaSeparated(items) ==
  IF Len(items) = 1 THEN items[1]
  ELSE items[1] \o ", " \o CommaSeparated(Tail(items))

\* C20: the formatted text is finalEmotion alone when the breakdown is
\* empty, and otherwise finalEmotion, a space and, in parentheses and
\* separated by ", ", "Face: f", "Voice: v", "Text: t" for exactly the
\* breakdown entries that are present, in that order.
C20_ListsPresentEntries ==
  Formatted =>
    IF DOMAIN result.breakdown = {}
    THEN formatted = Some(result.finalEmotion)
    ELSE formatted =
           Some(result.finalEmotion \o " ("
                  \o CommaSeparated(ListedAfter(3)) \o ")")

(***************************************************************************)
(* The choice of the strategy.                                             *)
(***************************************************************************)
\* C21: with strategy "majority" fuseEmotions returns the result of
\* majority voting, marked "majority-voting"; with "weighted", without a
\* strategy or with any other value it returns the result of weighted
\* voting, marked "weighted-voting"; there is no third mark.
C21_StrategyDispatch ==
  Fused =>
    /\ result.fusionMethod \in {"majority-voting", "weighted-voting"}
    /\ IF strategy = Some("majority")
       THEN /\ result = majorityVotingFusion(input)
            /\ result.fusionMethod = "majority-voting"
       ELSE /\ result = weightedVotingFusion(input)
            /\ result.fusionMethod = "weighted-voting"

C21_Witness ==
  /\ Fused
  /\ strategy = Some("average")
  /\ ~AllAbsent
  /\ result.fusionMethod = "weighted-voting"
  /\ result # majorityVotingFusion(input)

(***************************************************************************)
(* The emotion analysis flow, as the claim describes it.                   *)
(***************************************************************************)
FlowDone == flowPc = "done"

Threw(outcome) == outcome # None /\ outcome[1].throws

\* a channel of the flow's result is available when it holds a label
Available(x) == x # None /\ x[1] # ""

\* C22: an error of the voice prompt or of the text prompt does not fail
\* the flow: the flow goes on and returns a result where the failed
\* channel is absent, the other channels are analysed and reported, and
\* fusedEmotion is the first available of facial, voice, text, else
\* "Neutral".
C22_IndependentFailure ==
  /\ Threw(voiceOutcome) => flowPc \in {"awaitText", "done"}
  /\ Threw(textOutcome) => FlowDone
  /\ FlowDone =>
       LET in  == flowInput[1]
           res == flowResult[1]
       IN  /\ Threw(voiceOutcome) => res.voiceEmotion = None
           /\ Threw(textOutcome) => res.textEmotion = None
           /\ res.facialEmotion =
                (IF in.facialEmotion = None THEN None
                 ELSE Some(in.facialEmotion[1].emotion))
           /\ in.audioDataUri \notin {None, Some("")} =>
                /\ voiceOutcome # None
                /\ ~Threw(voiceOutcome) =>
                     res.voiceEmotion = voiceOutcome[1].emotion
           /\ in.text # "" =>
                /\ textOutcome # None
                /\ ~Threw(textOutcome) =>
                     res.textEmotion = textOutcome[1].emotion
           /\ res.fusedEmotion =
                (IF Available(res.facialEmotion) THEN res.facialEmotion
                 ELSE IF Available(res.voiceEmotion) THEN res.voiceEmotion
                 ELSE IF Available(res.textEmotion) THEN res.textEmotion
                 ELSE Some("Neutral"))

C22_Witness ==
  /\ FlowDone
  /\ flowInput[1].facialEmotion = None
  /\ Threw(voiceOutcome)
  /\ textOutcome = Some([throws |-> FALSE, emotion |-> Some("Sad")])
  /\ flowResult[1].voiceEmotion = None
  /\ flowResult[1].textEmotion = Some("Sad")
  /\ flowResult[1].fusedEmotion = Some("Sad")
  /\ flowResult[1].emotionalState = "Sad (Text: Sad)"

(***************************************************************************)
(* The chat interface, as the claims describe it.                          *)
(***************************************************************************)
\* the facial score a turn hands to the fusion when it sees the face
SeenFace(k) ==
  LET faceResult == detectFacialExpression(turns[k].frame)[1]
  IN  Some([emotion |-> mapFaceApiEmotion(faceResult.emotion),
            confidence |-> faceResult.confidence])

\* the turn has called fuseEmotions
HasFused(k) == turns[k].fuseInput # None

\* C23: a voice turn made once the face-api models are loaded and with a
\* face in view hands the detected facial expression to fuseEmotions as
\* facialEmotion, as a typed turn does.
C23_VoiceTurnUsesFace ==
  \A k \in 1..Len(turns) :
    turns[k].loaded /\ turns[k].frame # None /\ HasFused(k) =>
      turns[k].fuseInput[1].facialEmotion = SeenFace(k)

\* the lines of the exchanges that succeeded among the first n messages,
\* in the order in which they were answered
RECURSIVE ExchangesUpTo(_)
ExchangesUpTo(n) ==
  IF n = 0 THEN ""
  ELSE LET m == messages[n]
       IN  IF m.role = "ai" /\ m.turn > 0 /\ ~turns[m.turn].failed
           THEN ExchangesUpTo(n - 1) \o "\nUser: " \o turns[m.turn].text
                  \o "\nAI: " \o m.content
           ELSE ExchangesUpTo(n - 1)

AllExchanges == ExchangesUpTo(Len(messages))

\* turn k calls the response generator in this step
CallsGenerator(k) ==
  /\ k \in 1..Len(turns)
  /\ turns[k].pc = "analyzing"
  /\ turns'[k].pc = "responding"

\* C24: the history holds every exchange that succeeded, in order, each
\* successful turn adding its "User:" and "AI:" lines to the history of the
\* turn before, and the history handed to the response generator is the
\* history of all the exchanges so far, whether the turns are typed or
\* spoken.
C24_HistoryKept ==
  /\ [](conversationHistory = AllExchanges)
  /\ [][\A k \in 1..Len(turns) :
          CallsGenerator(k) => turns'[k].passedHistory = Some(AllExchanges)]_vars

(***************************************************************************)
(* The model loader, as the claim describes it.                            *)
(***************************************************************************)
\* C25: whatever the order and interleaving of the calls, the underlying
\* load is begun at most once beyond the loads that failed; a failed load
\* throws its error again and does not set the flag.
C25_LoadedOnce ==
  /\ loadsStarted <= loadsFailed + 1
  /\ modelsLoaded => \E c \in 1..Len(loadCalls) : loadCalls[c].pc = "loaded"
  /\ loadsFailed = Cardinality({c \in 1..Len(loadCalls) : loadCalls[c].pc = "threw"})

(***************************************************************************)
(* Consequences of the weights.                                            *)
(***************************************************************************)
\* voice and text are both present and agree on a label other than l
AgreeAgainst(l) ==
  /\ Present("voice")
  /\ Present("text")
  /\ Reported("voice") = Reported("text")
  /\ Reported("voice") # l

\* C26: under weighted voting a facial label with confidence above 0.6 is
\* always the final emotion; with confidence at most 0.6 the final emotion
\* is another label exactly when voice and text are both present and agree
\* on a label other than the facial one.
C26_FacialDominates ==
  Weighted /\ Present("facial") =>
    IF input.facialEmotion[1].confidence > 60
    THEN result.finalEmotion = Reported("facial")
    ELSE (result.finalEmotion # Reported("facial"))
           <=> AgreeAgainst(Reported("facial"))

\* the largest weight accumulated on a label, in tenths
TopWeight ==
  CHOOSE w \in {emotionVotes[j][2] : j \in 1..Len(emotionVotes)} :
    \A j \in 1..Len(emotionVotes) : emotionVotes[j][2] <= w

\* no accumulated weight exceeds 1.0, 1.0 needs three agreeing channels and
\* a facial confidence above 0.6, and the confidence of a result that is
\* not the fallback is the largest weight, one of the given tenths
WeightsWithin(tenths) ==
  Weighted =>
    /\ \A j \in 1..Len(emotionVotes) :
         /\ emotionVotes[j][2] <= 10
         /\ emotionVotes[j][2] = 10 =>
              /\ \A c \in 1..3 :
                   /\ Present(Channels[c])
                   /\ Reported(Channels[c]) = emotionVotes[j][1]
              /\ input.facialEmotion[1].confidence > 60
    /\ Len(emotionVotes) > 0 =>
         /\ result.confidence = <<TopWeight, 10>>
         /\ TopWeight \in tenths

Keywords(rules) == UNION {rules[i][1] : i \in 1..Len(rules)}

LiveKeywords == {"joy", "upset", "afraid", "scared", "amazed", "worried"}

ShadowedKeywords ==
  { "happy", "sad", "unhappy", "angry", "surprised", "disgusted", "neutral",
    "calm", "anxious", "excited", "frustrated", "confused" }

\* no member of the taxonomy is named in s
Unnamed(s) == \A i \in 1..Len(STANDARD_EMOTIONS) : ~Named(i, s)

Rank(l) == CHOOSE i \in 1..Len(STANDARD_EMOTIONS) : STANDARD_EMOTIONS[i] = l

\* C28: the scan for taxonomy names shadows the keyword table: a text with
\* "unhappy" is extracted as Happy, not as Sad; a result decided by the
\* table is decided by joy, upset, afraid, scared, amazed or worried, every
\* other keyword naming a member of the taxonomy; and a channel with "calm"
\* and no earlier member named is labelled Calm by the fusion, not Neutral.
C28_TableShadowed ==
  /\ Keywords(ExtractRules) = LiveKeywords \cup ShadowedKeywords
  /\ Extracted =>
       LET t == rawText[1]
       IN  /\ includes(toLowerCase(t), "unhappy") =>
                /\ extracted # None
                /\ Rank(extracted[1]) <= Rank("Happy")
           /\ \A k \in ShadowedKeywords :
                includes(toLowerCase(t), k) =>
                  /\ ~Unnamed(t)
                  /\ extracted = Some(STANDARD_EMOTIONS[FirstMention(toLowerCase(t))])
           /\ Unnamed(t) /\ extracted # None =>
                \E i \in 1..Len(ExtractRules) :
                  /\ FirstHit(ExtractRules, i, t)
                  /\ extracted = Some(ExtractRules[i][2])
                  /\ \E k \in ExtractRules[i][1] \cap LiveKeywords :
                       includes(toLowerCase(t), k)
  /\ Fused /\ Present("voice") =>
       LET t == input.voiceEmotion[1]
       IN  /\ includes(toLowerCase(t), "calm")
           /\ \A i \in 1..(Rank("Calm") - 1) : ~Named(i, t)
           => Reported("voice") = "Calm"

C28_Witness ==
  /\ Fused
  /\ input.voiceEmotion = Some("calm down")
  /\ result.breakdown = [x \in {"voice"} |-> "Calm"]
  /\ result.finalEmotion = "Calm"
  /\ normalizeEmotion("calm down") = "Neutral"

(***************************************************************************)
(* The turns of the chat interface.                                        *)
(***************************************************************************)
InFlight == {k \in 1..Len(turns) : turns[k].pc # "finished"}

\* C29: at most one processInteraction is in flight at any time, and
\* isLoading is true for as long as one is.
C29_OneInFlight ==
  /\ Cardinality(InFlight) <= 1
  /\ InFlight # {} => isLoading

\* the messages turn k has appended
RECURSIVE MessagesOf(_, _)
MessagesOf(k, n) ==
  IF n = 0 THEN <<>>
  ELSE IF messages[n].turn = k
       THEN Append(MessagesOf(k, n - 1),
                   <<messages[n].role, messages[n].content>>)
       ELSE MessagesOf(k, n - 1)

Started(k) == k \in 1..Len(turns)

Finished(k) == Started(k) /\ turns[k].pc = "finished"

\* turn k looked for a face and found none
NoFaceFound(k) ==
  turns[k].render.faceApiLoaded /\ turns[k].frame = None
    /\ turns[k].pc # "detecting"

\* C30: every processInteraction begun with a text that is not blank ends,
\* and ends resetting isLoading, whether its calls succeed or throw; it
\* appends one user message and then one AI message, the response when it
\* succeeded and the connection-trouble text when it failed; a detection
\* that finds no face does not fail the turn, which goes on without the
\* facial channel.
C30_TurnCompletes ==
  /\ \A k \in 1..MaxTurns : Started(k) ~> Finished(k)
  /\ [][\A k \in 1..Len(turns) :
          turns[k].pc # "finished" /\ turns'[k].pc = "finished" => ~isLoading']_vars
  /\ [](\A k \in 1..Len(turns) :
          /\ trim(turns[k].text) # ""
          /\ ~Finished(k) =>
               MessagesOf(k, Len(messages)) = <<<<"user", turns[k].text>>>>
          /\ Finished(k) =>
               /\ Len(MessagesOf(k, Len(messages))) = 2
               /\ MessagesOf(k, Len(messages))[1] = <<"user", turns[k].text>>
               /\ MessagesOf(k, Len(messages))[2][1] = "ai"
               /\ turns[k].failed <=>
                    MessagesOf(k, Len(messages))[2][2] = ConnectionTrouble
          /\ NoFaceFound(k) =>
               /\ turns[k].facial = None
               /\ turns[k].pc = "analyzing" => ~turns[k].failed
               /\ HasFused(k) => turns[k].fuseInput[1].facialEmotion = None)

C30_Witness ==
  /\ Finished(1)
  /\ NoFaceFound(1)
  /\ ~turns[1].failed
  /\ ~isLoading
  /\ messages = <<Greeting, [role |-> "user", turn |-> 1, content |-> "hi"],
                  [role |-> "ai", turn |-> 1, content |-> "ok"]>>

====
